---- MODULE Spec2Model ----
(***************************************************************************)
(* NativeBridge: the bridge server (bridge_server/src/main.rs), its input  *)
(* synthesizer (bridge_server/src/input_manager.rs), the wire vocabulary   *)
(* (bridge_core/src/lib.rs) and the response loops of the bundled client   *)
(* (bridge_client/src/main.rs).                                            *)
(*                                                                         *)
(* Granularity.  Every thread of the server is a process whose position is *)
(* kept in pc (session driver) or rpc (the two relay threads of a Stream   *)
(* session).  A step runs a thread from one blocking call to the next:     *)
(* accept, the first socket read, Mutex::lock, each of the two write_all   *)
(* calls of write_response, a line read from a child pipe, thread join,    *)
(* child wait, a write of one event record to the touch device.            *)
(*                                                                         *)
(* Environment.  Every Result the code branches on is an input of the      *)
(* step that receives it: accept, read, decode, spawn, line read, socket   *)
(* write_all (which may fail after none or a part of its bytes went out),  *)
(* device open and device write.  Results the code unwrap()s              *)
(* (bincode::serialize, try_clone, Mutex::lock, join) are the Ok the code  *)
(* asserts.                                                                *)
(***************************************************************************)
EXTENDS Integers, Sequences, FiniteSets, TLC

\* ---------------------------------------------------------------- bounds

\* Connections the clients make in one run of the single-session scenario
\* and of the server scenario.
Conns == {1, 2}

\* The largest coordinate of the swipes of the swipe scenario.
MaxCoord == 2

\* Lines a streamed child writes to one of its output streams, at most.
MaxLines == 2

\* Socket writes that fail although the client is still connected, at most.
MaxIoErrors == 1

\* accept() errors the listener sees, at most.
MaxAcceptErrs == 1

\* ------------------------------------------------------- wire vocabulary

Success(t) == [tag |-> "Success", text |-> t]

Error(t) == [tag |-> "Error", text |-> t]

StreamChunk(t) == [tag |-> "StreamChunk", text |-> t]

StreamEnd == [tag |-> "StreamEnd", text |-> <<>>]

NoFrame == [tag |-> "none", text |-> <<>>]

Ping == [op |-> "Ping"]

Exec(p, a) == [op |-> "Exec", program |-> p, args |-> a]

Stream(p, a) == [op |-> "Stream", program |-> p, args |-> a]

DirectTap(x, y) == [op |-> "DirectTap", x |-> x, y |-> y]

DirectSwipe(x1, y1, x2, y2, d) ==
  [op |-> "DirectSwipe", x1 |-> x1, y1 |-> y1, x2 |-> x2, y2 |-> y2, duration_ms |-> d]

NoCmd == [op |-> "none"]

\* Lossy text decoding of captured output (String::from_utf8_lossy): over
\* the byte alphabet used here, "0xFF" is the byte that is never valid
\* UTF-8 and becomes one replacement character; every other token is an
\* ASCII byte and is kept.
LossyChar(b) == IF b = "0xFF" THEN "U+FFFD" ELSE b

from_utf8_lossy(bytes) == [i \in 1..Len(bytes) |-> LossyChar(bytes[i])]

\* bincode layout of a BridgeCommand, one token per field: the variant's
\* index in declaration order, then the fields in declaration order.
Encode(cmd) ==
  CASE cmd.op = "Exec" -> <<0, cmd.program, cmd.args>>
    [] cmd.op = "Stream" -> <<1, cmd.program, cmd.args>>
    [] cmd.op = "Ping" -> <<2>>
    [] cmd.op = "DirectTap" -> <<3, cmd.x, cmd.y>>
    [] cmd.op = "DirectSwipe" -> <<4, cmd.x1, cmd.y1, cmd.x2, cmd.y2, cmd.duration_ms>>

Arity(tag) == CASE tag = 0 -> 2 [] tag = 1 -> 2 [] tag = 2 -> 0 [] tag = 3 -> 2 [] tag = 4 -> 5

\* bincode::deserialize::<BridgeCommand>: Err on an empty or truncated
\* payload and on an unknown variant index.
Decode(p) ==
  IF Len(p) = 0 \/ p[1] \notin 0..4 THEN [ok |-> FALSE, cmd |-> NoCmd]
  ELSE IF Len(p) < 1 + Arity(p[1]) THEN [ok |-> FALSE, cmd |-> NoCmd]
  ELSE [ok |-> TRUE,
        cmd |-> CASE p[1] = 0 -> Exec(p[2], p[3])
                  [] p[1] = 1 -> Stream(p[2], p[3])
                  [] p[1] = 2 -> Ping
                  [] p[1] = 3 -> DirectTap(p[2], p[3])
                  [] p[1] = 4 -> DirectSwipe(p[2], p[3], p[4], p[5], p[6])]

\* ----------------------------------------------------------------- state

Relays == {"out", "err"}

Threads == {"drv", "out", "err"}

Other(r) == IF r = "out" THEN "err" ELSE "out"

VARIABLES
  clients,      \* connections the environment makes in this run
  direct_input, \* the build's direct_input feature
  listener,     \* position of main's accept loop
  nacc,         \* connections accepted so far
  acceptErrs,   \* accept() errors seen so far
  pc,           \* pc[c]: position of the session driver of connection c
  cmd,          \* cmd[c]: the decoded command of the session
  rpc,          \* rpc[c][r]: position of relay thread r
  why,          \* why[c][r]: why relay r left its loop
  rnext,        \* rnext[c][r]: lines relay r has taken from its reader
  lock,         \* lock[c]: holder of the Mutex around the cloned socket
  wphase,       \* wphase[c][t]: where thread t is inside write_response
  wframe,       \* wframe[c][t]: the response thread t is writing
  child,        \* child[c]: the spawned process of the session
  wire,         \* wire[c]: the bytes the server has put on the connection
  emitted,      \* emitted[c]: the write_response calls of the session, in order
  connected,    \* connected[c]: the client end is open
  device,       \* the event records written to TOUCH_DEVICE, in order
  gq,           \* gq[c]: event records the session's gesture has yet to write
  ioErrs,       \* socket writes that failed with the client connected
  spawned,      \* every process the server has spawned
  sock,         \* framing scenario: the bytes the server wrote, in order
  sent,         \* framing scenario: the payloads of the whole frames in sock
  cut           \* framing scenario: the last frame in sock is cut short

svars == <<clients, direct_input, listener, nacc, acceptErrs, pc, cmd, rpc, why,
           rnext, lock, wphase, wframe, child, wire, emitted, connected, device,
           gq, ioErrs, spawned>>

fvars == <<sock, sent, cut>>

vars == <<svars, fvars>>

NoChild == [st |-> "none", produced |-> [r \in Relays |-> 0],
            closed |-> [r \in Relays |-> FALSE], status |-> 0,
            stdout |-> <<>>, stderr |-> <<>>]

InitWith(n) ==
  /\ clients = n
  /\ direct_input \in BOOLEAN
  /\ listener = "accepting"
  /\ nacc = 0
  /\ acceptErrs = 0
  /\ pc = [c \in Conns |-> "idle"]
  /\ cmd = [c \in Conns |-> NoCmd]
  /\ rpc = [c \in Conns |-> [r \in Relays |-> "none"]]
  /\ why = [c \in Conns |-> [r \in Relays |-> "none"]]
  /\ rnext = [c \in Conns |-> [r \in Relays |-> 0]]
  /\ lock = [c \in Conns |-> "free"]
  /\ wphase = [c \in Conns |-> [t \in Threads |-> "idle"]]
  /\ wframe = [c \in Conns |-> [t \in Threads |-> NoFrame]]
  /\ child = [c \in Conns |-> NoChild]
  /\ wire = [c \in Conns |-> <<>>]
  /\ emitted = [c \in Conns |-> <<>>]
  /\ connected = [c \in Conns |-> FALSE]
  /\ device = <<>>
  /\ gq = [c \in Conns |-> <<>>]
  /\ ioErrs = 0
  /\ spawned = {}
  /\ sock = <<>>
  /\ sent = <<>>
  /\ cut = FALSE

\* ------------------------------------------------------------- listener

\* main's loop over listener.incoming(), Ok arm: the next connection is
\* accepted and a thread running handle_client(socket) is spawned for it;
\* the thread blocks in the first socket.read.
Accept(c) ==
  /\ listener = "accepting"
  /\ c = nacc + 1
  /\ c <= clients
  /\ nacc' = c
  /\ pc' = [pc EXCEPT ![c] = "read"]
  /\ connected' = [connected EXCEPT ![c] = TRUE]
  /\ UNCHANGED fvars
  /\ UNCHANGED <<clients, direct_input, listener, acceptErrs, cmd, rpc, why, rnext,
                 lock, wphase, wframe, child, wire, emitted, device, gq, ioErrs, spawned>>

\* An accept loop that an accept error ends.
AfterAcceptErrStop == "stopped"

\* Where the accept loop is after an accept error: the Err arm prints the
\* error and the for loop takes the next connection.
AfterAcceptErr == "accepting"

\* main's loop over listener.incoming(), Err arm.  The listener returns
\* from accept, with a connection or with an error, while clients are
\* still to arrive.
AcceptErr ==
  /\ listener = "accepting"
  /\ nacc < clients
  /\ acceptErrs < MaxAcceptErrs
  /\ acceptErrs' = acceptErrs + 1
  /\ listener' = AfterAcceptErr
  /\ UNCHANGED fvars
  /\ UNCHANGED <<clients, direct_input, nacc, pc, cmd, rpc, why, rnext, lock, wphase,
                 wframe, child, wire, emitted, connected, device, gq, ioErrs, spawned>>

\* ------------------------------------------------------- write_response

\* One write_all call's bytes as they reach the connection: the 8-byte
\* big-endian length or the bincode payload of response f, whole or cut.
Chunk(f, part, all) == [f |-> f, part |-> part, all |-> all]

\* A driver that returns after every write: a failed spawn is answered
\* with Error and not followed by StreamEnd.
DriverNextStop(p) == "done"

\* A driver that ends every response with StreamEnd.
DriverNextEnd(p) == IF p \in {"sf_error", "respond"} THEN "sf_end" ELSE "done"

\* Where the session driver goes when a write_response it called returns,
\* from position p: after the Error of a failed spawn comes the write of
\* StreamEnd (sf_end); after every other write the function returns.
DriverNext(p) == IF p = "sf_error" THEN "sf_end" ELSE "done"

\* A failed write that takes both relays down.
LeavesBoth(t, ok) == IF ok THEN {} ELSE Relays

\* The relay threads that leave their loop when write_response returns in
\* relay t: t itself when the write failed (break), no thread otherwise.
Leaves(t, ok) == IF ok THEN {} ELSE {t}

\* A guard that the relay keeps over the end of the loop body.
GuardKept(holder, ok) == holder

\* A guard that is dropped at the end of the loop body but not at break.
GuardLeaked(holder, ok) == IF ok THEN "free" ELSE holder

\* The holder of the write guard after a relay's loop body in which
\* write_response returned Ok (ok) or Err: socket_guard is a local of the
\* body, and is dropped at its end and at break.
GuardDropped(holder, ok) == "free"

\* write_response returns to its caller in thread t of session c.
\*   handle_client: the result is dropped and the session ends;
\*   handle_stream_request, spawn failure: after Error comes StreamEnd,
\*     whatever the result of the first write, then the session ends;
\*   handle_stream_request, end: the session ends (its guard is dropped);
\*   relay: Ok takes the next line, Err breaks; the guard is dropped at the
\*     end of the loop body either way.
Return(c, t, ok) ==
  IF t = "drv"
  THEN /\ pc' = [pc EXCEPT ![c] = DriverNext(@)]
       /\ wphase' = [wphase EXCEPT ![c][t] = IF DriverNext(pc[c]) = "sf_end" THEN "len" ELSE "idle"]
       /\ wframe' = [wframe EXCEPT ![c][t] =
                       IF DriverNext(pc[c]) = "sf_end" THEN StreamEnd ELSE NoFrame]
       /\ lock' = [lock EXCEPT ![c] = IF pc[c] = "stream_end" THEN "free" ELSE @]
       /\ UNCHANGED <<rpc, why>>
  ELSE /\ rpc' = [rpc EXCEPT ![c] =
                    [r \in Relays |-> IF r \in Leaves(t, ok) THEN "done"
                                      ELSE IF r = t THEN "read" ELSE @[r]]]
       /\ why' = [why EXCEPT ![c][t] = IF ok THEN @ ELSE "write"]
       /\ wphase' = [wphase EXCEPT ![c][t] = "idle"]
       /\ wframe' = [wframe EXCEPT ![c][t] = NoFrame]
       /\ lock' = [lock EXCEPT ![c] = GuardDropped(@, ok)]
       /\ UNCHANGED pc

\* How a write_all call on the socket of connection c can fail:
\*   the client end is already closed: no byte goes out;
\*   the client closes while the call is in progress: a part went out;
\*   the call fails with the client still connected: none or a part went out.
WriteFails(c, part, budget) ==
  \/ /\ ~connected[c]
     /\ part = "none"
     /\ UNCHANGED <<connected, ioErrs>>
  \/ /\ connected[c]
     /\ part = "part"
     /\ connected' = [connected EXCEPT ![c] = FALSE]
     /\ UNCHANGED ioErrs
  \/ /\ connected[c]
     /\ ioErrs < budget
     /\ ioErrs' = ioErrs + 1
     /\ UNCHANGED connected

\* write_response, socket.write_all(&len.to_be_bytes()) returns Ok.  On a
\* Unix stream socket a write returns Ok only while the peer end is open.
WriteLenOk(c, t) ==
  /\ wphase[c][t] = "len"
  /\ connected[c]
  /\ emitted' = [emitted EXCEPT ![c] = Append(@, [f |-> wframe[c][t], by |-> t])]
  /\ wire' = [wire EXCEPT ![c] = Append(@, Chunk(wframe[c][t], "len", TRUE))]
  /\ wphase' = [wphase EXCEPT ![c][t] = "body"]
  /\ UNCHANGED fvars
  /\ UNCHANGED <<clients, direct_input, listener, nacc, acceptErrs, pc, cmd, rpc, why,
                 rnext, lock, wframe, child, connected, device, gq, ioErrs, spawned>>

\* write_response, socket.write_all(&len.to_be_bytes())? returns the error.
WriteLenFail(c, t, budget) ==
  /\ wphase[c][t] = "len"
  /\ emitted' = [emitted EXCEPT ![c] = Append(@, [f |-> wframe[c][t], by |-> t])]
  /\ \E part \in {"none", "part"} :
       /\ WriteFails(c, part, budget)
       /\ wire' = [wire EXCEPT ![c] =
                     IF part = "part" THEN Append(@, Chunk(wframe[c][t], "len", FALSE)) ELSE @]
  /\ Return(c, t, FALSE)
  /\ UNCHANGED fvars
  /\ UNCHANGED <<clients, direct_input, listener, nacc, acceptErrs, cmd, rnext, child,
                 device, gq, spawned>>

\* write_response, socket.write_all(&bytes) returns Ok, and Ok(()) follows.
WriteBodyOk(c, t) ==
  /\ wphase[c][t] = "body"
  /\ connected[c]
  /\ wire' = [wire EXCEPT ![c] = Append(@, Chunk(wframe[c][t], "body", TRUE))]
  /\ Return(c, t, TRUE)
  /\ UNCHANGED fvars
  /\ UNCHANGED <<clients, direct_input, listener, nacc, acceptErrs, cmd, rnext, child,
                 emitted, connected, device, gq, ioErrs, spawned>>

\* write_response, socket.write_all(&bytes)? returns the error.
WriteBodyFail(c, t, budget) ==
  /\ wphase[c][t] = "body"
  /\ \E part \in {"none", "part"} :
       /\ WriteFails(c, part, budget)
       /\ wire' = [wire EXCEPT ![c] =
                     IF part = "part" THEN Append(@, Chunk(wframe[c][t], "body", FALSE)) ELSE @]
  /\ Return(c, t, FALSE)
  /\ UNCHANGED fvars
  /\ UNCHANGED <<clients, direct_input, listener, nacc, acceptErrs, cmd, rnext, child,
                 emitted, device, gq, spawned>>

\* -------------------------------------------------------- handle_client

SpawnError == "No such file or directory (os error 2)"

DecodeError == "io error: unexpected end of file"

LogcatMessage ==
  "For live logcat, use the -s flag. Only 'logcat -d' and 'logcat -c' are allowed with -e."

Unsupported == "Command not supported or feature disabled on server"

\* The requests clients send.
LogcatArgs == {<<>>, <<"-d">>, <<"-c">>, <<"-v">>, <<"-d", "-c">>, <<"-d", "-d">>, <<"-v", "-d">>}

ExecCommands == {Exec("logcat", a) : a \in LogcatArgs} \cup {Exec("sh", <<>>), Exec("sh", <<"-d">>)}

StreamCommands == {Stream("logcat", <<>>)}

\* Payloads that are not an encoded BridgeCommand: an unknown variant
\* index, an Exec cut after its index, a DirectTap cut after x.
Garbage == {<<7>>, <<0>>, <<3, 5>>}

\* A rule that looks at the first argument only.
first_arg_is_valid(args) ==
  IF Len(args) >= 1 THEN args[1] = "-d" \/ args[1] = "-c" ELSE FALSE

\* execute_request, the logcat rule of the Exec arm.
is_valid_exec_logcat(args) ==
  IF Len(args) = 1 THEN args[1] = "-d" \/ args[1] = "-c" ELSE FALSE

\* handle_client: let _ = write_response(socket, &response), up to the
\* first write_all.
Respond(c, f) ==
  /\ pc' = [pc EXCEPT ![c] = "respond"]
  /\ wphase' = [wphase EXCEPT ![c]["drv"] = "len"]
  /\ wframe' = [wframe EXCEPT ![c]["drv"] = f]

\* socket.read returns Err: the if let does not match, the session ends.
RecvErr(c) ==
  /\ pc[c] = "read"
  /\ pc' = [pc EXCEPT ![c] = "done"]
  /\ UNCHANGED fvars
  /\ UNCHANGED <<clients, direct_input, listener, nacc, acceptErrs, cmd, rpc, why,
                 rnext, lock, wphase, wframe, child, wire, emitted, connected, device,
                 gq, ioErrs, spawned>>

\* socket.read returns Ok(0), the client closed without sending: return.
RecvEmpty(c) ==
  /\ pc[c] = "read"
  /\ ~connected[c]
  /\ pc' = [pc EXCEPT ![c] = "done"]
  /\ UNCHANGED fvars
  /\ UNCHANGED <<clients, direct_input, listener, nacc, acceptErrs, cmd, rpc, why,
                 rnext, lock, wphase, wframe, child, wire, emitted, connected, device,
                 gq, ioErrs, spawned>>

\* A decode failure answered as a success.
InvalidPayloadAsSuccess(e) == Success(<<e>>)

\* BridgeResponse::Error(format!("Invalid Payload: {}", e)).
InvalidPayload(e) == Error(<<"Invalid Payload: ", e>>)

\* The bytes read do not decode: Error("Invalid Payload: ...") is written.
RecvInvalid(c, payloads) ==
  /\ pc[c] = "read"
  /\ \E p \in payloads :
       /\ ~Decode(p).ok
       /\ Respond(c, InvalidPayload(DecodeError))
  /\ UNCHANGED fvars
  /\ UNCHANGED <<clients, direct_input, listener, nacc, acceptErrs, cmd, rpc, why,
                 rnext, lock, child, wire, emitted, connected, device, gq, ioErrs,
                 spawned>>

\* The bytes read decode to Ping: execute_request answers Success("Pong!").
RecvPing(c) ==
  /\ pc[c] = "read"
  /\ LET d == Decode(Encode(Ping)) IN
       /\ d.ok /\ d.cmd.op = "Ping"
       /\ cmd' = [cmd EXCEPT ![c] = d.cmd]
  /\ Respond(c, Success(<<"Pong!">>))
  /\ UNCHANGED fvars
  /\ UNCHANGED <<clients, direct_input, listener, nacc, acceptErrs, rpc, why, rnext,
                 lock, child, wire, emitted, connected, device, gq, ioErrs, spawned>>

\* The bytes read decode to Exec: execute_request applies the logcat rule
\* and calls Command::new(program).args(args).output(), which spawns the
\* child and blocks until it has exited, or fails to spawn it.
RecvExec(c, requests) ==
  /\ pc[c] = "read"
  /\ \E k \in requests : LET d == Decode(Encode(k)) IN
       /\ d.ok /\ d.cmd.op = "Exec"
       /\ cmd' = [cmd EXCEPT ![c] = d.cmd]
       /\ IF d.cmd.program = "logcat" /\ ~is_valid_exec_logcat(d.cmd.args)
          THEN /\ Respond(c, Error(<<LogcatMessage>>))
               /\ UNCHANGED <<child, spawned>>
          ELSE \/ /\ Respond(c, Error(<<SpawnError>>))
                  /\ UNCHANGED <<child, spawned>>
               \/ /\ pc' = [pc EXCEPT ![c] = "exec_wait"]
                  /\ child' = [child EXCEPT ![c] = [NoChild EXCEPT !.st = "running"]]
                  /\ spawned' = spawned \cup {[conn |-> c, via |-> "Exec",
                                               program |-> d.cmd.program, args |-> d.cmd.args]}
                  /\ UNCHANGED <<wphase, wframe>>
  /\ UNCHANGED fvars
  /\ UNCHANGED <<clients, direct_input, listener, nacc, acceptErrs, rpc, why, rnext,
                 lock, wire, emitted, connected, device, gq, ioErrs>>

\* What the exec child leaves behind: its exit status and the bytes it
\* wrote to stdout and stderr.
OutBytes == {<<>>, <<"o", "0xFF">>}

ErrBytes == {<<>>, <<"0xFF", "e">>}

\* The child of an Exec request exits.
ExecChildExit(c, outs, errs) ==
  /\ pc[c] = "exec_wait"
  /\ child[c].st = "running"
  /\ \E st \in {0, 1}, o \in outs, e \in errs :
       child' = [child EXCEPT ![c].st = "exited", ![c].status = st,
                              ![c].stdout = o, ![c].stderr = e]
  /\ UNCHANGED fvars
  /\ UNCHANGED <<clients, direct_input, listener, nacc, acceptErrs, pc, cmd, rpc, why,
                 rnext, lock, wphase, wframe, wire, emitted, connected, device, gq,
                 ioErrs, spawned>>

\* A response that does not look at the exit status.
ExecResponseAnyStatus(o) == Success(from_utf8_lossy(o.stdout))

\* execute_request, match output / Ok(o): the response made of the
\* collected Output.
ExecResponse(o) ==
  IF o.status = 0
  THEN Success(from_utf8_lossy(o.stdout))
  ELSE Error(from_utf8_lossy(o.stderr))

\* output() returns Ok(o) once the child has exited.
ExecFinish(c) ==
  /\ pc[c] = "exec_wait"
  /\ child[c].st = "exited"
  /\ child' = [child EXCEPT ![c].st = "reaped"]
  /\ Respond(c, ExecResponse(child[c]))
  /\ UNCHANGED fvars
  /\ UNCHANGED <<clients, direct_input, listener, nacc, acceptErrs, cmd, rpc, why,
                 rnext, lock, wire, emitted, connected, device, gq, ioErrs, spawned>>

\* -------------------------------------------------------- input_manager

\* f32 arithmetic.  A value is kept as an integer count of units of
\* 2^-S, S chosen per gesture so that every value of the gesture fits; an
\* f32 has 24 significant bits, so a count of more than 24 bits is rounded
\* to the nearest multiple of the power of two that leaves 24 bits, ties
\* to the even multiple.
RECURSIVE BitLen(_)
BitLen(n) == IF n = 0 THEN 0 ELSE 1 + BitLen(n \div 2)

Abs(n) == IF n < 0 THEN -n ELSE n

Sign(n) == IF n < 0 THEN -1 ELSE 1

Grid(n) == IF BitLen(n) > 24 THEN 2 ^ (BitLen(n) - 24) ELSE 1

\* The count nearest to num/den on the grid of its magnitude, num >= 0.
RoundRatio(num, den) ==
  LET g == Grid(num \div den)
      m == num \div (den * g)
      r == num - m * den * g
  IN  IF 2 * r > den * g \/ (2 * r = den * g /\ m % 2 = 1)
      THEN (m + 1) * g
      ELSE m * g

F32Round(n) == Sign(n) * RoundRatio(Abs(n), 1)

\* (d as f32) / (steps as f32) in units of 2^-S.
F32Div(d, steps, S) == Sign(d) * RoundRatio(Abs(d) * 2 ^ S, steps)

\* a += b on f32 values.
F32Add(a, b) == F32Round(a + b)

\* A conversion to the nearest integer, halves away from zero.
F32ToI32Nearest(n, S) == Sign(n) * ((Abs(n) + 2 ^ (S - 1)) \div 2 ^ S)

\* v as i32: the fraction is dropped, towards zero.
F32ToI32(n, S) == Sign(n) * (Abs(n) \div 2 ^ S)

\* The scale of a swipe: the largest S for which the coordinates and one
\* step beyond them stay below 2^30 units.
SwipeScale(g) ==
  LET top == 2 * (Abs(g.x1) + Abs(g.x2) + Abs(g.y1) + Abs(g.y2)) + 1
  IN  30 - BitLen(top)

\* swipe: steps = (duration_ms / step_delay).max(1), step_delay = 10.
step_delay == 10

\* A step count that is one too many.
SwipeStepsOneMore(duration_ms) == duration_ms \div step_delay + 1

SwipeSteps(duration_ms) ==
  IF duration_ms \div step_delay > 1 THEN duration_ms \div step_delay ELSE 1

\* The division of a swipe is exact in units of 2^-S when the quotient
\* has at least 24 bits or is a whole count of units.
ExactDiv(d, steps, S) ==
  \/ (Abs(d) * 2 ^ S) % steps = 0
  \/ BitLen((Abs(d) * 2 ^ S) \div steps) >= 24

F32Exact(g) ==
  /\ ExactDiv(g.x2 - g.x1, SwipeSteps(g.duration_ms), SwipeScale(g))
  /\ ExactDiv(g.y2 - g.y1, SwipeSteps(g.duration_ms), SwipeScale(g))

\* One input_event record (time_sec and time_usec are 0), and the waits of
\* the gestures, which take their place in the order of the writes.
Event(type, code, value) == [k |-> "event", type |-> type, code |-> code, value |-> value]

Sleep(ms) == [k |-> "sleep", type |-> 0, code |-> 0, value |-> ms]

\* send_touch_event: ABS_MT_POSITION_X, ABS_MT_POSITION_Y, BTN_TOUCH, SYN_REPORT.
send_touch_event(x, y, state) ==
  <<Event(3, 53, x), Event(3, 54, y), Event(1, 330, state), Event(0, 0, 0)>>

\* send_move_event: ABS_MT_POSITION_X, ABS_MT_POSITION_Y, SYN_REPORT.
send_move_event(x, y) == <<Event(3, 53, x), Event(3, 54, y), Event(0, 0, 0)>>

\* A tap that returns right after the last record.
tap_without_wait(x, y) == send_touch_event(x, y, 1) \o send_touch_event(x, y, 0)

\* tap, after the device is open: touch down, touch up, the 50 ms wait.
tap(x, y) == send_touch_event(x, y, 1) \o send_touch_event(x, y, 0) \o <<Sleep(50)>>

\* The loop of swipe from its k-th pass on: current_x += dx,
\* current_y += dy, the move event at the truncated position, the wait.
RECURSIVE SwipeLoop(_, _, _, _, _, _, _)
SwipeLoop(k, steps, cx, cy, dx, dy, S) ==
  IF k > steps THEN <<>>
  ELSE LET nx == F32Add(cx, dx)
           ny == F32Add(cy, dy)
       IN  send_move_event(F32ToI32(nx, S), F32ToI32(ny, S)) \o <<Sleep(step_delay)>>
             \o SwipeLoop(k + 1, steps, nx, ny, dx, dy, S)

\* swipe, after the device is open.
swipe(x1, y1, x2, y2, duration_ms) ==
  LET S == SwipeScale(DirectSwipe(x1, y1, x2, y2, duration_ms))
      steps == SwipeSteps(duration_ms)
      dx == F32Div(x2 - x1, steps, S)
      dy == F32Div(y2 - y1, steps, S)
  IN  send_touch_event(x1, y1, 1)
        \o SwipeLoop(1, steps, x1 * 2 ^ S, y1 * 2 ^ S, dx, dy, S)
        \o send_touch_event(x2, y2, 0)

\* The gestures clients ask for.
TapCommands == {DirectTap(3, 4)}

SwipeCommands ==
  {g \in {DirectSwipe(0, 0, 2, 1, 30), DirectSwipe(5, 1, 0, 1, 5)} : F32Exact(g)}

DeviceError == "Permission denied (os error 13)"

\* A dispatch that takes a tap for a swipe and a swipe for a tap.
GestureOfSwapped(k) ==
  IF k.op = "DirectTap" THEN swipe(k.x, k.y, k.x, k.y, 0) ELSE tap(k.x1, k.y1)

GestureOf(k) ==
  IF k.op = "DirectTap" THEN tap(k.x, k.y)
  ELSE swipe(k.x1, k.y1, k.x2, k.y2, k.duration_ms)

GestureFailed(k) ==
  Error(<<IF k.op = "DirectTap" THEN "Tap Failed: " ELSE "Swipe Failed: ", DeviceError>>)

\* The bytes read decode to DirectTap or DirectSwipe in a build with the
\* direct_input feature: tap or swipe opens TOUCH_DEVICE.  Err is answered
\* with Error("Tap Failed: ..") or Error("Swipe Failed: .."); Ok goes on to
\* the first write_event.
RecvDirect(c, requests) ==
  /\ pc[c] = "read"
  /\ direct_input
  /\ \E k \in requests : LET d == Decode(Encode(k)) IN
       /\ d.ok /\ d.cmd.op \in {"DirectTap", "DirectSwipe"}
       /\ cmd' = [cmd EXCEPT ![c] = d.cmd]
       /\ \/ /\ Respond(c, GestureFailed(d.cmd))
             /\ UNCHANGED gq
          \/ /\ pc' = [pc EXCEPT ![c] = "gesture"]
             /\ gq' = [gq EXCEPT ![c] = GestureOf(d.cmd)]
             /\ UNCHANGED <<wphase, wframe>>
  /\ UNCHANGED fvars
  /\ UNCHANGED <<clients, direct_input, listener, nacc, acceptErrs, rpc, why, rnext,
                 lock, child, wire, emitted, connected, device, ioErrs, spawned>>

\* The bytes read decode to DirectTap or DirectSwipe in a build without the
\* feature: the arms are compiled out and the request falls to the last
\* arm of execute_request.
RecvUnsupported(c, requests) ==
  /\ pc[c] = "read"
  /\ ~direct_input
  /\ \E k \in requests : LET d == Decode(Encode(k)) IN
       /\ d.ok /\ d.cmd.op \in {"DirectTap", "DirectSwipe"}
       /\ cmd' = [cmd EXCEPT ![c] = d.cmd]
  /\ Respond(c, Error(<<Unsupported>>))
  /\ UNCHANGED fvars
  /\ UNCHANGED <<clients, direct_input, listener, nacc, acceptErrs, rpc, why, rnext,
                 lock, child, wire, emitted, connected, device, gq, ioErrs, spawned>>

\* After the last step of a gesture tap or swipe returns Ok(()) and the
\* session answers Success("").
GestureNext(c, rest) ==
  IF rest = <<>>
  THEN /\ Respond(c, Success(<<>>))
       /\ gq' = [gq EXCEPT ![c] = <<>>]
  ELSE /\ gq' = [gq EXCEPT ![c] = rest]
       /\ UNCHANGED <<pc, wphase, wframe>>

\* write_event: file.write_all of one record returns Ok.
GestureWrite(c) ==
  /\ pc[c] = "gesture"
  /\ gq[c] # <<>>
  /\ Head(gq[c]).k = "event"
  /\ device' = Append(device, [conn |-> c, ev |-> Head(gq[c])])
  /\ GestureNext(c, Tail(gq[c]))
  /\ UNCHANGED fvars
  /\ UNCHANGED <<clients, direct_input, listener, nacc, acceptErrs, cmd, rpc, why, rnext,
                 lock, child, wire, emitted, connected, ioErrs, spawned>>

\* A gesture that goes on with the next step after a failed write.
WriteErrIgnored(c) == GestureNext(c, Tail(gq[c]))

\* The Err of write_event leaves send_touch_event or send_move_event, and
\* then tap or swipe, through the ? operators: no step of the gesture
\* follows, and execute_request makes Error of it.
WriteErr(c) ==
  /\ gq' = [gq EXCEPT ![c] = <<>>]
  /\ Respond(c, GestureFailed(cmd[c]))

\* write_event: file.write_all returns Err; the session answers Error.
GestureWriteFail(c) ==
  /\ pc[c] = "gesture"
  /\ gq[c] # <<>>
  /\ Head(gq[c]).k = "event"
  /\ WriteErr(c)
  /\ UNCHANGED fvars
  /\ UNCHANGED <<clients, direct_input, listener, nacc, acceptErrs, cmd, rpc, why, rnext,
                 lock, child, wire, emitted, connected, device, ioErrs, spawned>>

\* thread::sleep returns.
GestureSleep(c) ==
  /\ pc[c] = "gesture"
  /\ gq[c] # <<>>
  /\ Head(gq[c]).k = "sleep"
  /\ GestureNext(c, Tail(gq[c]))
  /\ UNCHANGED fvars
  /\ UNCHANGED <<clients, direct_input, listener, nacc, acceptErrs, cmd, rpc, why, rnext,
                 lock, child, wire, emitted, connected, device, ioErrs, spawned>>

\* ------------------------------------------------ handle_stream_request

\* The text of the i-th line the child writes to stream r.
LineName(r, i) ==
  IF r = "out" THEN <<"o1", "o2", "o3", "o4">>[i] ELSE <<"e1", "e2", "e3", "e4">>[i]

\* Relays that both send the bare line.
ChunkOfBare(r, line) == StreamChunk(<<line>>)

\* The response a relay makes of a line: the stdout relay sends the line,
\* the stderr relay sends format!("[STDERR] {}", line).
ChunkOf(r, line) ==
  IF r = "out" THEN StreamChunk(<<line>>) ELSE StreamChunk(<<"[STDERR] ", line>>)

\* The bytes read decode to Stream: handle_stream_request spawns the child
\* with both outputs piped.  Err: Error(e) is written, StreamEnd after it.
\* Ok: the socket is cloned into Arc<Mutex>, the two relay threads are
\* started, and the driver blocks in stdout_thread.join().
RecvStream(c, requests) ==
  /\ pc[c] = "read"
  /\ \E k \in requests : LET d == Decode(Encode(k)) IN
       /\ d.ok /\ d.cmd.op = "Stream"
       /\ cmd' = [cmd EXCEPT ![c] = d.cmd]
       /\ \/ /\ pc' = [pc EXCEPT ![c] = "sf_error"]
             /\ wphase' = [wphase EXCEPT ![c]["drv"] = "len"]
             /\ wframe' = [wframe EXCEPT ![c]["drv"] = Error(<<SpawnError>>)]
             /\ UNCHANGED <<child, spawned, rpc>>
          \/ /\ pc' = [pc EXCEPT ![c] = "join_out"]
             /\ child' = [child EXCEPT ![c] = [NoChild EXCEPT !.st = "running"]]
             /\ spawned' = spawned \cup {[conn |-> c, via |-> "Stream",
                                          program |-> d.cmd.program, args |-> d.cmd.args]}
             /\ rpc' = [rpc EXCEPT ![c] = [r \in Relays |-> "read"]]
             /\ UNCHANGED <<wphase, wframe>>
  /\ UNCHANGED fvars
  /\ UNCHANGED <<clients, direct_input, listener, nacc, acceptErrs, why, rnext, lock,
                 wire, emitted, connected, device, gq, ioErrs>>

\* The streamed child writes one more line to its stdout or stderr; it can
\* do so while the read end of that pipe is open.
ChildWriteLine(c, r, bound) ==
  /\ child[c].st = "running"
  /\ pc[c] # "exec_wait"
  /\ ~child[c].closed[r]
  /\ rpc[c][r] # "done"
  /\ child[c].produced[r] < bound
  /\ child' = [child EXCEPT ![c].produced[r] = @ + 1]
  /\ UNCHANGED fvars
  /\ UNCHANGED <<clients, direct_input, listener, nacc, acceptErrs, pc, cmd, rpc, why,
                 rnext, lock, wphase, wframe, wire, emitted, connected, device, gq,
                 ioErrs, spawned>>

\* The streamed child closes its stdout or stderr.
ChildCloseStream(c, r) ==
  /\ child[c].st = "running"
  /\ pc[c] # "exec_wait"
  /\ ~child[c].closed[r]
  /\ child' = [child EXCEPT ![c].closed[r] = TRUE]
  /\ UNCHANGED fvars
  /\ UNCHANGED <<clients, direct_input, listener, nacc, acceptErrs, pc, cmd, rpc, why,
                 rnext, lock, wphase, wframe, wire, emitted, connected, device, gq,
                 ioErrs, spawned>>

\* The streamed child, both outputs closed, exits.
StreamChildExit(c) ==
  /\ child[c].st = "running"
  /\ pc[c] # "exec_wait"
  /\ \A r \in Relays : child[c].closed[r]
  /\ \E st \in {0, 1} : child' = [child EXCEPT ![c].st = "exited", ![c].status = st]
  /\ UNCHANGED fvars
  /\ UNCHANGED <<clients, direct_input, listener, nacc, acceptErrs, pc, cmd, rpc, why,
                 rnext, lock, wphase, wframe, wire, emitted, connected, device, gq,
                 ioErrs, spawned>>

\* A reader that yields the newest line of the pipe.
NextLineNewest(c, r) == child[c].produced[r]

\* The line reader.lines() yields next: the oldest line of the pipe that
\* relay r has not taken yet.
NextLine(c, r) == rnext[c][r] + 1

\* Relay r, reader.lines().map_while(Result::ok): the next line is there.
\* Ok(line) enters the loop body, where the response is built and the
\* thread blocks in lock(); Err (a line that is not UTF-8) ends the loop.
RelayLine(c, r) ==
  /\ rpc[c][r] = "read"
  /\ rnext[c][r] < child[c].produced[r]
  /\ rnext' = [rnext EXCEPT ![c][r] = @ + 1]
  /\ \/ /\ rpc' = [rpc EXCEPT ![c][r] = "lock"]
        /\ wframe' = [wframe EXCEPT ![c][r] = ChunkOf(r, LineName(r, NextLine(c, r)))]
        /\ UNCHANGED why
     \/ /\ rpc' = [rpc EXCEPT ![c][r] = "done"]
        /\ why' = [why EXCEPT ![c][r] = "read"]
        /\ UNCHANGED wframe
  /\ UNCHANGED fvars
  /\ UNCHANGED <<clients, direct_input, listener, nacc, acceptErrs, pc, cmd, lock,
                 wphase, child, wire, emitted, connected, device, gq, ioErrs, spawned>>

\* Relay r: the child has closed the stream and every line was taken; the
\* iterator ends and the thread returns.
RelayEof(c, r) ==
  /\ rpc[c][r] = "read"
  /\ rnext[c][r] = child[c].produced[r]
  /\ child[c].closed[r]
  /\ rpc' = [rpc EXCEPT ![c][r] = "done"]
  /\ why' = [why EXCEPT ![c][r] = "eof"]
  /\ UNCHANGED fvars
  /\ UNCHANGED <<clients, direct_input, listener, nacc, acceptErrs, pc, cmd, rnext,
                 lock, wphase, wframe, child, wire, emitted, connected, device, gq,
                 ioErrs, spawned>>

\* Mutex::lock returns when no thread holds the guard.
CanLock(c) == lock[c] = "free"

\* Relay r: stdout_socket.lock().unwrap() returns the guard and
\* write_response is entered.
RelayLock(c, r) ==
  /\ rpc[c][r] = "lock"
  /\ CanLock(c)
  /\ lock' = [lock EXCEPT ![c] = r]
  /\ rpc' = [rpc EXCEPT ![c][r] = "write"]
  /\ wphase' = [wphase EXCEPT ![c][r] = "len"]
  /\ UNCHANGED fvars
  /\ UNCHANGED <<clients, direct_input, listener, nacc, acceptErrs, pc, cmd, why, rnext,
                 wframe, child, wire, emitted, connected, device, gq, ioErrs, spawned>>

\* A join that does not wait for the thread.
JoinedAtOnce(c, r) == TRUE

\* thread.join() returns when the relay thread has returned.
Joined(c, r) == rpc[c][r] = "done"

\* Driver: stdout_thread.join().unwrap() returns.
JoinOut(c) ==
  /\ pc[c] = "join_out"
  /\ Joined(c, "out")
  /\ pc' = [pc EXCEPT ![c] = "join_err"]
  /\ UNCHANGED fvars
  /\ UNCHANGED <<clients, direct_input, listener, nacc, acceptErrs, cmd, rpc, why,
                 rnext, lock, wphase, wframe, child, wire, emitted, connected, device,
                 gq, ioErrs, spawned>>

\* Driver: stderr_thread.join().unwrap() returns.
JoinErr(c) ==
  /\ pc[c] = "join_err"
  /\ Joined(c, "err")
  /\ pc' = [pc EXCEPT ![c] = "wait"]
  /\ UNCHANGED fvars
  /\ UNCHANGED <<clients, direct_input, listener, nacc, acceptErrs, cmd, rpc, why,
                 rnext, lock, wphase, wframe, child, wire, emitted, connected, device,
                 gq, ioErrs, spawned>>

\* Driver: child.wait() returns once the child has exited.
WaitChild(c) ==
  /\ pc[c] = "wait"
  /\ child[c].st = "exited"
  /\ child' = [child EXCEPT ![c].st = "reaped"]
  /\ pc' = [pc EXCEPT ![c] = "end_lock"]
  /\ UNCHANGED fvars
  /\ UNCHANGED <<clients, direct_input, listener, nacc, acceptErrs, cmd, rpc, why,
                 rnext, lock, wphase, wframe, wire, emitted, connected, device, gq,
                 ioErrs, spawned>>

\* Driver: socket.lock().unwrap() returns the guard and
\* write_response(.., &StreamEnd) is entered.
EndLock(c) ==
  /\ pc[c] = "end_lock"
  /\ CanLock(c)
  /\ lock' = [lock EXCEPT ![c] = "drv"]
  /\ pc' = [pc EXCEPT ![c] = "stream_end"]
  /\ wphase' = [wphase EXCEPT ![c]["drv"] = "len"]
  /\ wframe' = [wframe EXCEPT ![c]["drv"] = StreamEnd]
  /\ UNCHANGED fvars
  /\ UNCHANGED <<clients, direct_input, listener, nacc, acceptErrs, cmd, rpc, why,
                 rnext, child, wire, emitted, connected, device, gq, ioErrs, spawned>>

\* --------------------------------------------------------------- client

\* The client process exits or is killed: its end of the connection closes.
ClientClose(c) ==
  /\ connected[c]
  /\ connected' = [connected EXCEPT ![c] = FALSE]
  /\ UNCHANGED fvars
  /\ UNCHANGED <<clients, direct_input, listener, nacc, acceptErrs, pc, cmd, rpc, why,
                 rnext, lock, wphase, wframe, child, wire, emitted, device, gq, ioErrs,
                 spawned>>

\* A whole frame starts at chunk i of the byte stream w: the 8 length bytes
\* of a response and then its payload, as the client's two read_exact
\* calls need them.
WholeFrameAt(w, i) ==
  /\ Len(w) >= i + 1
  /\ w[i].part = "len" /\ w[i].all
  /\ w[i + 1] = Chunk(w[i].f, "body", TRUE)

\* Bytes follow a frame that was cut at chunk i of w: read_exact fills its
\* buffer across the frame boundary.
BrokenFrameAt(w, i) ==
  /\ Len(w) >= i
  /\ ~WholeFrameAt(w, i)
  /\ \/ w[i].part # "len"
     \/ ~w[i].all /\ Len(w) >= i + 1
     \/ /\ w[i].all
        /\ Len(w) >= i + 1
        /\ \/ w[i + 1].part # "body"
           \/ w[i + 1].f # w[i].f
           \/ Len(w) >= i + 2

\* handle_stream_response on the byte stream w from chunk i on, got being
\* the lines printed so far: StreamChunk is printed and the loop goes on,
\* StreamEnd and Error break, any other response is reported and the loop
\* goes on; "more" is the loop blocked in (or failing) read_exact.
RECURSIVE StreamLoop(_, _, _)
StreamLoop(w, i, got) ==
  IF WholeFrameAt(w, i)
  THEN LET f == w[i].f IN
       CASE f.tag = "StreamChunk" -> StreamLoop(w, i + 2, Append(got, f.text))
         [] f.tag = "StreamEnd" -> [printed |-> got, last |-> "StreamEnd"]
         [] f.tag = "Error" -> [printed |-> got, last |-> "Error"]
         [] OTHER -> StreamLoop(w, i + 2, got)
  ELSE IF BrokenFrameAt(w, i) THEN [printed |-> got, last |-> "garbled"]
  ELSE [printed |-> got, last |-> "more"]

handle_stream_response(w) == StreamLoop(w, 1, <<>>)

\* handle_single_response on the byte stream w: one frame is read.  The
\* payload of a response is never empty (bincode writes the variant index
\* first), so the return on len == 0 is not taken.
handle_single_response(w) ==
  IF WholeFrameAt(w, 1) THEN [got |-> <<w[1].f>>, last |-> w[1].f.tag]
  ELSE IF BrokenFrameAt(w, 1) THEN [got |-> <<>>, last |-> "garbled"]
  ELSE [got |-> <<>>, last |-> "more"]

\* -------------------------------------------------------------- framing

\* The eight bytes of a u64 below 2^31 with the least significant first.
to_le_bytes(n) == [i \in 1..8 |-> IF i > 4 THEN 0 ELSE (n \div 256 ^ (i - 1)) % 256]

\* len.to_be_bytes() of a u64 below 2^31: eight bytes, the most significant
\* first; the upper four are 0.
to_be_bytes(n) == [i \in 1..8 |-> IF i <= 4 THEN 0 ELSE (n \div 256 ^ (8 - i)) % 256]

\* A length no socket of the scenario can hold.
Huge == 2147483647

\* u64::from_be_bytes of eight bytes; a value of 2^31 or more is Huge.
from_be_bytes(b) ==
  IF b[1] # 0 \/ b[2] # 0 \/ b[3] # 0 \/ b[4] # 0 \/ b[5] >= 128 THEN Huge
  ELSE b[5] * 256 ^ 3 + b[6] * 256 ^ 2 + b[7] * 256 + b[8]

\* write_response on the bytes of a serialized response: the length
\* prefix, then the payload.
Frame(bytes) == to_be_bytes(Len(bytes)) \o bytes

\* stream.read_exact(&mut buf) with buf of n bytes, on the bytes s of a
\* connection the server has closed, from position pos: Ok with the next n
\* bytes, or Err when fewer than n are left.
read_exact(s, pos, n) ==
  IF Len(s) - pos + 1 >= n
  THEN [ok |-> TRUE, buf |-> SubSeq(s, pos, pos + n - 1), next |-> pos + n]
  ELSE [ok |-> FALSE, buf |-> <<>>, next |-> Len(s) + 1]

\* The frame reading of handle_single_response and of one pass of
\* handle_stream_response: read_exact of the 8 length bytes, from_be_bytes,
\* read_exact of the payload.  handle_single_response returns on len == 0
\* before the second read, handle_stream_response reads 0 bytes: either way
\* the payload is empty and 8 bytes are consumed.
ReadFrame(s, pos) ==
  LET p == read_exact(s, pos, 8) IN
    IF ~p.ok THEN [st |-> "no_prefix", payload |-> <<>>, next |-> p.next]
    ELSE LET len == from_be_bytes(p.buf) IN
         IF len = 0 THEN [st |-> "ok", payload |-> <<>>, next |-> p.next]
         ELSE LET b == read_exact(s, p.next, len) IN
              IF b.ok THEN [st |-> "ok", payload |-> b.buf, next |-> b.next]
              ELSE [st |-> "short", payload |-> <<>>, next |-> b.next]

\* The loop of handle_stream_response as a frame reader: frames are read
\* from pos on until a read fails; got are the payloads read so far and
\* at the positions where their frames began.
RECURSIVE ReadFrames(_, _, _, _)
ReadFrames(s, pos, got, at) ==
  LET f == ReadFrame(s, pos) IN
    IF f.st = "ok"
    THEN ReadFrames(s, f.next, Append(got, f.payload), Append(at, pos))
    ELSE [payloads |-> got, at |-> at, st |-> f.st, from |-> pos]

\* The most whole frames the server writes in the framing scenario, and the
\* longest of its short payloads.
MaxFrames == 2

MaxPayload == 2

\* The payloads: every byte string over {0, 7} of up to MaxPayload bytes,
\* the empty one among them, and one of 300 bytes, whose length needs two
\* length bytes.
RECURSIVE Strings(_)
Strings(n) ==
  IF n = 0 THEN {<<>>}
  ELSE Strings(n - 1) \cup {Append(t, b) : t \in {u \in Strings(n - 1) : Len(u) = n - 1},
                                          b \in {0, 7}}

Payloads == Strings(MaxPayload) \cup {[i \in 1..300 |-> 1]}

\* write_response writes one whole frame.
FrameWrite ==
  /\ ~cut
  /\ Len(sent) < MaxFrames
  /\ \E p \in Payloads :
       /\ sock' = sock \o Frame(p)
       /\ sent' = Append(sent, p)
  /\ UNCHANGED <<cut, svars>>

\* write_response fails after n bytes of the frame, n less than the whole:
\* nothing follows on this connection.
FrameWriteCut ==
  /\ ~cut
  /\ Len(sent) <= MaxFrames
  /\ \E p \in Payloads : \E n \in 1..(Len(Frame(p)) - 1) :
       /\ n <= 12 \/ n >= Len(Frame(p)) - 2
       /\ sock' = sock \o SubSeq(Frame(p), 1, n)
  /\ cut' = TRUE
  /\ UNCHANGED <<sent, svars>>

InitFrame == InitWith(1)

NextFrame == FrameWrite \/ FrameWriteCut

SpecFrame == InitFrame /\ [][NextFrame]_vars

\* ---------------------------------------------------------------- system

\* The server with one client: the connection is accepted and its session
\* runs, with every request and every failure of the session.
Init == InitWith(1)

Next ==
  \E c \in Conns :
       \/ Accept(c)
       \/ RecvErr(c)
       \/ RecvEmpty(c)
       \/ RecvInvalid(c, Garbage)
       \/ RecvPing(c)
       \/ RecvExec(c, ExecCommands)
       \/ ExecChildExit(c, OutBytes, ErrBytes)
       \/ ExecFinish(c)
       \/ RecvDirect(c, TapCommands \cup SwipeCommands)
       \/ RecvUnsupported(c, TapCommands \cup SwipeCommands)
       \/ GestureWrite(c)
       \/ GestureWriteFail(c)
       \/ GestureSleep(c)
       \/ RecvStream(c, StreamCommands)
       \/ JoinOut(c)
       \/ JoinErr(c)
       \/ WaitChild(c)
       \/ EndLock(c)
       \/ StreamChildExit(c)
       \/ ClientClose(c)
       \/ \E r \in Relays :
            \/ ChildWriteLine(c, r, MaxLines)
            \/ ChildCloseStream(c, r)
            \/ RelayLine(c, r)
            \/ RelayEof(c, r)
            \/ RelayLock(c, r)
       \/ \E t \in Threads :
            \/ WriteLenOk(c, t)
            \/ WriteLenFail(c, t, MaxIoErrors)
            \/ WriteBodyOk(c, t)
            \/ WriteBodyFail(c, t, MaxIoErrors)

Spec == Init /\ [][Next]_vars

\* The server with two clients at once.  One of the two sessions, at
\* most, serves a request that spawns a process or drives the touch device;
\* the other serves Ping, an undecodable payload or a client that sends
\* nothing.  The requests are one of each kind, a streamed child writes at
\* most ServerLines lines to each stream, and a socket write fails only
\* when its client has gone.
ServerLines == 1

InitServer == InitWith(2)

Alone(c) == \A d \in Conns \ {c} : cmd[d].op \notin {"Exec", "Stream", "DirectTap", "DirectSwipe"}

NextServer ==
  \/ AcceptErr
  \/ \E c \in Conns :
       \/ Accept(c)
       \/ RecvErr(c)
       \/ RecvEmpty(c)
       \/ RecvInvalid(c, {<<7>>})
       \/ RecvPing(c)
       \/ Alone(c) /\ RecvExec(c, {Exec("sh", <<>>)})
       \/ ExecChildExit(c, {<<"o">>}, {<<"e">>})
       \/ ExecFinish(c)
       \/ Alone(c) /\ RecvDirect(c, TapCommands)
       \/ Alone(c) /\ RecvUnsupported(c, TapCommands)
       \/ GestureWrite(c)
       \/ GestureWriteFail(c)
       \/ GestureSleep(c)
       \/ Alone(c) /\ RecvStream(c, StreamCommands)
       \/ JoinOut(c)
       \/ JoinErr(c)
       \/ WaitChild(c)
       \/ EndLock(c)
       \/ StreamChildExit(c)
       \/ ClientClose(c)
       \/ \E r \in Relays :
            \/ ChildWriteLine(c, r, ServerLines)
            \/ ChildCloseStream(c, r)
            \/ RelayLine(c, r)
            \/ RelayEof(c, r)
            \/ RelayLock(c, r)
       \/ \E t \in Threads :
            \/ WriteLenOk(c, t)
            \/ WriteLenFail(c, t, 0)
            \/ WriteBodyOk(c, t)
            \/ WriteBodyFail(c, t, 0)

SpecServer == InitServer /\ [][NextServer]_vars

\* One streaming session under fair scheduling.  The hypotheses are weak
\* fairness of what does not wait on the client: the child closes each of
\* its outputs and exits; a relay thread that can take a line, see the end
\* of its stream or take the free guard does so; a write_all call returns,
\* with Ok or with Err; join, wait and the last lock return when they can.
\* That the client stays is no hypothesis: ClientClose can happen at any
\* time or never.
InitLive == InitWith(1) /\ ~direct_input

WriteLen(c, t) == WriteLenOk(c, t) \/ WriteLenFail(c, t, MaxIoErrors)

WriteBody(c, t) == WriteBodyOk(c, t) \/ WriteBodyFail(c, t, MaxIoErrors)

RelayRead(c, r) == RelayLine(c, r) \/ RelayEof(c, r)

NextLive ==
  \E c \in Conns :
    \/ Accept(c)
    \/ RecvStream(c, StreamCommands)
    \/ JoinOut(c)
    \/ JoinErr(c)
    \/ WaitChild(c)
    \/ EndLock(c)
    \/ StreamChildExit(c)
    \/ ClientClose(c)
    \/ \E r \in Relays :
         \/ ChildWriteLine(c, r, MaxLines)
         \/ ChildCloseStream(c, r)
         \/ RelayRead(c, r)
         \/ RelayLock(c, r)
    \/ \E t \in Threads :
         \/ WriteLen(c, t)
         \/ WriteBody(c, t)

FairLive ==
  \A c \in Conns :
    /\ WF_vars(JoinOut(c))
    /\ WF_vars(JoinErr(c))
    /\ WF_vars(WaitChild(c))
    /\ WF_vars(EndLock(c))
    /\ WF_vars(StreamChildExit(c))
    /\ \A r \in Relays :
         /\ WF_vars(ChildCloseStream(c, r))
         /\ WF_vars(RelayRead(c, r))
         /\ WF_vars(RelayLock(c, r))
    /\ \A t \in Threads :
         /\ WF_vars(WriteLen(c, t))
         /\ WF_vars(WriteBody(c, t))

SpecLive == InitLive /\ [][NextLive]_vars /\ FairLive

\* Two clients at once, both with gestures, in a build with direct_input:
\* each connection has its own thread (main, thread::spawn), and both
\* threads open and write the one device TOUCH_DEVICE, one record a write.
\* The first client asks for a tap, the second for a swipe too short for a
\* move.
DeviceGestures(c) == IF c = 1 THEN TapCommands ELSE {DirectSwipe(5, 1, 0, 1, 5)}

InitDevice == InitWith(2) /\ direct_input

NextDevice ==
  \E c \in Conns :
    \/ Accept(c)
    \/ RecvDirect(c, DeviceGestures(c))
    \/ GestureWrite(c)
    \/ GestureSleep(c)
    \/ WriteLenOk(c, "drv")
    \/ WriteBodyOk(c, "drv")

SpecDevice == InitDevice /\ [][NextDevice]_vars

\* ------------------------------------------------------------ properties

\* The responses of the write_response calls of session c, in call order.
Frames(c) == [i \in 1..Len(emitted[c]) |-> emitted[c][i].f]

\* The write_response calls thread t of session c has made, in call order.
CallsBy(c, t) == SelectSeq(emitted[c], LAMBDA e : e.by = t)

\* The frames that are whole in the byte stream w from chunk i on, in order.
RECURSIVE WholeFrames(_, _)
WholeFrames(w, i) ==
  IF i > Len(w) THEN <<>>
  ELSE IF WholeFrameAt(w, i) THEN <<w[i].f>> \o WholeFrames(w, i + 2)
  ELSE WholeFrames(w, i + 1)

Delivered(c) == WholeFrames(wire[c], 1)

WholeOnWire(c, f) ==
  \E i \in 1..Len(wire[c]) : WholeFrameAt(wire[c], i) /\ wire[c][i].f = f

\* Every write_response call of session c put its whole frame on the wire.
AllWritten(c) == Len(wire[c]) = 2 * Len(emitted[c]) /\ Delivered(c) = Frames(c)

\* Session c serves a Stream request whose child was spawned.
Streaming(c) == cmd[c].op = "Stream" /\ child[c].st # "none"

FromStdout(f) == f.tag = "StreamChunk" /\ Len(f.text) = 1

FromStderr(f) == f.tag = "StreamChunk" /\ Len(f.text) = 2 /\ f.text[1] = "[STDERR] "

NonStream(c) == cmd[c].op \in {"Exec", "Ping", "DirectTap", "DirectSwipe"}

\* C1: the write_response calls of a Stream session are StreamChunk calls
\* and then one StreamEnd call or, when the spawn failed, one Error call and
\* then one StreamEnd call; StreamEnd is the last call and is made once; a
\* finished session has made its StreamEnd call; on the wire no byte of
\* another frame follows a byte of StreamEnd.
C1_StreamFrames ==
  \A c \in Conns : cmd[c].op = "Stream" =>
    LET e == Frames(c)
        n == Len(e)
    IN  /\ \A i \in 1..n : e[i] = StreamEnd => i = n
        /\ \A i \in 1..Len(wire[c]) : \A j \in i..Len(wire[c]) :
             wire[c][i].f = StreamEnd => wire[c][j].f = StreamEnd
        /\ IF child[c].st = "none"
           THEN /\ n <= 2
                /\ n >= 1 => e[1] = Error(<<SpawnError>>)
                /\ n = 2 => e[2] = StreamEnd
                /\ pc[c] = "done" => n = 2
           ELSE /\ \A i \in 1..n : e[i].tag \in {"StreamChunk", "StreamEnd"}
                /\ pc[c] = "done" => n >= 1 /\ e[n] = StreamEnd

\* A finished stream whose two relays each sent a chunk, all of it whole on
\* the wire.
C1_Witness ==
  \E c \in Conns :
    /\ Streaming(c) /\ pc[c] = "done" /\ AllWritten(c)
    /\ Len(CallsBy(c, "out")) >= 1 /\ Len(CallsBy(c, "err")) >= 1
    /\ Frames(c)[Len(Frames(c))] = StreamEnd

\* C2: in a streaming session every chunk of bytes on the wire that is
\* followed by more bytes is whole, a length prefix is followed by the
\* payload of its own frame, and a payload is followed by a length prefix.
C2_WholeFramesOnly ==
  \A c \in Conns : Streaming(c) =>
    LET w == wire[c] IN
      /\ Len(w) >= 1 => w[1].part = "len"
      /\ \A i \in 1..(Len(w) - 1) :
           /\ w[i].all
           /\ w[i].part = "len" => w[i + 1].part = "body" /\ w[i + 1].f = w[i].f
           /\ w[i].part = "body" => w[i + 1].part = "len"

C4_OrderWithinStream ==
  \A c \in Conns : Streaming(c) =>
    LET o == SelectSeq(Delivered(c), FromStdout)
        e == SelectSeq(Delivered(c), FromStderr)
    IN  /\ \A i \in 1..Len(o) : o[i].text = <<LineName("out", i)>>
        /\ \A j \in 1..Len(e) : e[j].text = <<"[STDERR] ", LineName("err", j)>>
        /\ \A r \in Relays : \A i \in 1..Len(CallsBy(c, r)) :
             LET t == CallsBy(c, r)[i].f.text IN t[Len(t)] = LineName(r, i)

\* Two stdout chunks and two stderr chunks whole on the wire, a stderr
\* chunk between the stdout chunks.
C4_Witness ==
  \E c \in Conns :
    /\ Streaming(c)
    /\ Len(SelectSeq(Delivered(c), FromStdout)) >= 2
    /\ Len(SelectSeq(Delivered(c), FromStderr)) >= 2
    /\ \E i, j, k \in 1..Len(Delivered(c)) :
         /\ i < j /\ j < k
         /\ FromStdout(Delivered(c)[i])
         /\ FromStderr(Delivered(c)[j])
         /\ FromStdout(Delivered(c)[k])

C5_State ==
  \A c \in Conns :
    ( /\ Streaming(c)
      /\ \/ wframe[c]["drv"] = StreamEnd
         \/ \E i \in 1..Len(emitted[c]) : emitted[c][i].f = StreamEnd ) =>
    /\ \A r \in Relays : rpc[c][r] = "done" /\ why[c][r] \in {"eof", "read", "write"}
    /\ child[c].st = "reaped"

C5_Step ==
  \A c \in Conns :
    (cmd[c].op = "Stream" /\ child[c].st # "reaped" /\ child'[c].st = "reaped") =>
    /\ pc[c] = "wait" /\ pc'[c] = "end_lock"
    /\ rpc'[c] = rpc[c]

\* C5: when the driver of a streaming session is about to write StreamEnd,
\* and ever after, both relay threads have returned (end of their stream,
\* an unreadable line, or a failed write) and child.wait() has returned;
\* the step that collects the child's exit is the driver's, from its wait.
C5_EndAfterRelaysAndWait == []C5_State /\ [][C5_Step]_vars

\* StreamEnd has been written after a relay stopped on a failed write.
C5_Witness ==
  \E c \in Conns :
    /\ Streaming(c) /\ pc[c] = "done"
    /\ \E r \in Relays : why[c][r] = "write" /\ why[c][Other(r)] = "eof"
    /\ child[c].produced["out"] >= 1 /\ child[c].produced["err"] >= 1
    /\ Frames(c)[Len(Frames(c))] = StreamEnd

C6_State ==
  \A c \in Conns : NonStream(c) =>
    /\ Len(emitted[c]) <= 1
    /\ \A i \in 1..Len(emitted[c]) : emitted[c][i].f.tag \in {"Success", "Error"}
    /\ \A i \in 1..Len(wire[c]) : wire[c][i].f.tag \in {"Success", "Error"}
    /\ pc[c] = "done" => Len(emitted[c]) = 1
    /\ \A r \in Relays : rpc[c][r] = "none"

C6_Step ==
  \A c \in Conns : NonStream(c) =>
    /\ cmd'[c] = cmd[c]
    /\ pc'[c] # "read"
    /\ pc[c] = "done" => pc'[c] = "done" /\ emitted'[c] = emitted[c] /\ wire'[c] = wire[c]

\* C6: a session that serves Exec, Ping, DirectTap or DirectSwipe makes
\* one write_response call, of a Success or an Error; it has made it when
\* it ends; it starts no relay, never reads from the socket again, and once
\* ended writes nothing.
C6_OneResponse == []C6_State /\ [][C6_Step]_vars

\* An Exec session has ended with its one response whole on the wire.
C6_Witness ==
  \E c \in Conns :
    /\ cmd[c].op = "Exec" /\ pc[c] = "done" /\ child[c].st = "reaped"
    /\ AllWritten(c) /\ Len(Delivered(c)) = 1

C7_State ==
  \A c \in Conns : Streaming(c) => \A r \in Relays :
    LET q == CallsBy(c, r)
        n == Len(q)
    IN  /\ rpc[c][r] = "done" <=> why[c][r] # "none"
        /\ why[c][r] = "none" => \A i \in 1..(n - 1) : WholeOnWire(c, q[i].f)
        /\ why[c][r] = "eof" =>
             /\ child[c].closed[r] /\ rnext[c][r] = child[c].produced[r]
             /\ n = rnext[c][r]
             /\ \A i \in 1..n : WholeOnWire(c, q[i].f)
        /\ why[c][r] = "read" =>
             /\ n = rnext[c][r] - 1
             /\ \A i \in 1..n : WholeOnWire(c, q[i].f)
        /\ why[c][r] = "write" =>
             /\ n = rnext[c][r] /\ n >= 1
             /\ ~WholeOnWire(c, q[n].f)
             /\ \A i \in 1..(n - 1) : WholeOnWire(c, q[i].f)

C7_Step ==
  \A c \in Conns : \A r \in Relays :
    /\ why[c][r] = "write" =>
         /\ CallsBy(c, r)' = CallsBy(c, r)
         /\ rpc'[c][r] = "done"
    /\ (why[c][r] # "write" /\ why'[c][r] = "write") =>
         /\ rpc'[c][Other(r)] = rpc[c][Other(r)]
         /\ why'[c][Other(r)] = why[c][Other(r)]
         /\ rnext'[c] = rnext[c]

\* C7: a relay has left its loop exactly when it has a reason of its own:
\* its stream ended with every line sent whole, a line was unreadable, or
\* its own last write failed; after a failed write the relay makes no
\* further write_response call, and the step in which a relay's write
\* fails leaves the other relay where it is.
C7_RelayFailureIsLocal == []C7_State /\ [][C7_Step]_vars

\* The stdout relay's write failed and the stderr relay then sent a chunk,
\* whole on the wire, and ran to the end of its stream.
C7_Witness ==
  \E c \in Conns :
    /\ Streaming(c)
    /\ why[c]["out"] = "write" /\ why[c]["err"] = "eof"
    /\ \E i, j \in 1..Len(emitted[c]) :
         /\ i < j
         /\ emitted[c][i].by = "out" /\ ~WholeOnWire(c, emitted[c][i].f)
         /\ emitted[c][j].by = "err" /\ WholeOnWire(c, emitted[c][j].f)

\* C8: every process spawned for an Exec of logcat has the one argument
\* "-d" or the one argument "-c"; an Exec of logcat with any other argument
\* list spawns nothing and is answered with the one Error that points to
\* the streaming flag; with "-d" or "-c" it is not answered with that Error;
\* a Stream of logcat is not answered with it either, and spawns its child
\* whatever its arguments.
C8_LogcatPolicy ==
  /\ \A s \in spawned :
       (s.via = "Exec" /\ s.program = "logcat") => s.args \in {<<"-d">>, <<"-c">>}
  /\ \A c \in Conns : (cmd[c].op = "Exec" /\ cmd[c].program = "logcat") =>
       IF cmd[c].args \in {<<"-d">>, <<"-c">>}
       THEN /\ wframe[c]["drv"] # Error(<<LogcatMessage>>)
            /\ \A i \in 1..Len(emitted[c]) : emitted[c][i].f # Error(<<LogcatMessage>>)
       ELSE /\ child[c].st = "none"
            /\ \A s \in spawned : s.conn # c
            /\ pc[c] \in {"respond", "done"}
            /\ pc[c] = "respond" => wframe[c]["drv"] = Error(<<LogcatMessage>>)
            /\ \A i \in 1..Len(emitted[c]) : emitted[c][i].f = Error(<<LogcatMessage>>)
            /\ pc[c] = "done" => Len(emitted[c]) = 1
  /\ \A c \in Conns : (cmd[c].op = "Stream" /\ cmd[c].program = "logcat") =>
       /\ \A i \in 1..Len(emitted[c]) : emitted[c][i].f # Error(<<LogcatMessage>>)
       /\ child[c].st # "none" =>
            [conn |-> c, via |-> "Stream", program |-> "logcat", args |-> cmd[c].args]
              \in spawned

\* An Exec of logcat with two arguments, the first of them "-d", has been
\* answered with the Error, whole on the wire.
C8_Witness ==
  \E c \in Conns :
    /\ cmd[c].op = "Exec" /\ cmd[c].program = "logcat"
    /\ Len(cmd[c].args) = 2 /\ cmd[c].args[1] = "-d"
    /\ pc[c] = "done"
    /\ Delivered(c) = <<Error(<<LogcatMessage>>)>>

\* The text a response carries for the captured bytes b: each byte that is
\* text is kept, each byte that is not UTF-8 shows as U+FFFD.
TextOf(t, b) ==
  /\ Len(t) = Len(b)
  /\ \A i \in 1..Len(b) : t[i] = IF b[i] = "0xFF" THEN "U+FFFD" ELSE b[i]

\* C9: an Exec that passes the logcat rule is answered only once its child
\* has exited and its output is collected, or once the spawn has failed:
\* with Success and the text of the captured stdout exactly when the child
\* was spawned and exited with status 0, with Error and the text of the
\* captured stderr when it exited with another status, with Error and the
\* spawn error when it could not be spawned.
C9_ExecResponse ==
  \A c \in Conns :
    ( /\ cmd[c].op = "Exec"
      /\ cmd[c].program = "logcat" => cmd[c].args \in {<<"-d">>, <<"-c">>} ) =>
    /\ pc[c] \in {"respond", "done"} => child[c].st \in {"none", "reaped"}
    /\ child[c].st \in {"running", "exited"} =>
         /\ pc[c] = "exec_wait"
         /\ emitted[c] = <<>>
         /\ wframe[c]["drv"] = NoFrame
    /\ \A f \in {wframe[c]["drv"]} \cup {emitted[c][i].f : i \in 1..Len(emitted[c])} :
         f # NoFrame =>
           /\ f.tag = "Success" <=> (child[c].st = "reaped" /\ child[c].status = 0)
           /\ f.tag = "Error" <=> (child[c].st = "none" \/ child[c].status # 0)
           /\ (child[c].st = "reaped" /\ child[c].status = 0) => TextOf(f.text, child[c].stdout)
           /\ (child[c].st = "reaped" /\ child[c].status # 0) => TextOf(f.text, child[c].stderr)
           /\ child[c].st = "none" => f.text = <<SpawnError>>

\* A child that wrote to both outputs, a byte that is not UTF-8 among
\* them, and exited with a status other than 0 was answered with Error.
C9_Witness ==
  \E c \in Conns :
    /\ cmd[c].op = "Exec" /\ pc[c] = "done"
    /\ child[c].st = "reaped" /\ child[c].status # 0
    /\ child[c].stdout # <<>> /\ child[c].stderr # <<>>
    /\ Len(Delivered(c)) = 1 /\ Delivered(c)[1].tag = "Error"

\* All of session c's state.
Session(c) ==
  <<pc[c], cmd[c], rpc[c], why[c], rnext[c], lock[c], wphase[c], wframe[c],
    child[c], wire[c], emitted[c], connected[c], gq[c]>>

\* The event records session c has written to the device, and the records
\* of its whole gesture.
Written(c) == SelectSeq(device, LAMBDA e : e.conn = c)

Records(k) == SelectSeq(GestureOf(k), LAMBDA g : g.k = "event")

\* The executor or the synthesizer failed in session c: a spawn failed, a
\* child exited with a status other than 0, the feature is compiled out, or
\* the device could not be opened or written to the end of the gesture.
OwnFailure(c) ==
  \/ cmd[c].op = "Exec" /\ (child[c].st = "none" \/ child[c].status # 0)
  \/ cmd[c].op = "Stream" /\ child[c].st = "none"
  \/ /\ cmd[c].op \in {"DirectTap", "DirectSwipe"}
     /\ \/ ~direct_input
        \/ Len(Written(c)) # Len(Records(cmd[c]))

C10_State ==
  /\ listener = "accepting"
  /\ nacc < clients => ENABLED Accept(nacc + 1)
  /\ \A c \in Conns :
       /\ \A i \in 1..Len(emitted[c]) :
            emitted[c][i].f.tag = "Error" => (cmd[c] = NoCmd \/ OwnFailure(c))
       /\ (pc[c] = "done" /\ cmd[c] # NoCmd) =>
            /\ emitted[c] # <<>>
            /\ OwnFailure(c) <=> emitted[c][1].f.tag = "Error"
            /\ cmd[c].op = "Ping" => Frames(c) = <<Success(<<"Pong!">>)>>
            /\ (connected[c] /\ cmd[c].op # "Stream") => AllWritten(c)

C10_Step ==
  \A c \in Conns : \A d \in Conns \ {c} :
    Session(c)' = Session(c) \/ Session(d)' = Session(d)

\* C10: with two clients and any of the failures, the accept loop is
\* always accepting and takes the next client; no step of one session
\* changes anything of the other session; a session has an Error response
\* only for a failure of its own (its payload did not decode, its spawn
\* failed, its child exited with a status other than 0, its gesture
\* failed), and has it whenever it had such a failure; a Ping is answered
\* with Success("Pong!"), whole on the wire of a client that is connected.
C10_FailuresAreLocal == []C10_State /\ [][C10_Step]_vars

\* After an accept error both clients were accepted; one session's child
\* exited with a status other than 0 and was answered with Error, the
\* other session's Ping was answered with Success, whole on its wire.
C10_Witness ==
  /\ acceptErrs >= 1 /\ nacc = 2
  /\ \E c \in Conns : \E d \in Conns \ {c} :
       /\ pc[c] = "done" /\ cmd[c].op = "Exec" /\ child[c].status # 0
       /\ Frames(c)[1].tag = "Error"
       /\ pc[d] = "done" /\ cmd[d].op = "Ping"
       /\ Delivered(d) = <<Success(<<"Pong!">>)>>

\* The event records among the steps q of a gesture, and the event records
\* session c has written to the device.
EventsOf(q) == SelectSeq(q, LAMBDA g : g.k = "event")

WrittenEvents(c) == [i \in 1..Len(Written(c)) |-> Written(c)[i].ev]

Direct(c) == cmd[c].op \in {"DirectTap", "DirectSwipe"}

\* The position in the byte stream where frame i begins when the frames
\* before it carry the payloads ps[1..i-1]: each takes 8 + length bytes.
RECURSIVE Boundary(_, _)
Boundary(ps, i) == IF i = 1 THEN 1 ELSE Boundary(ps, i - 1) + 8 + Len(ps[i - 1])

ClientReads == ReadFrames(sock, 1, <<>>, <<>>)

\* C15: the frames the server wrote whole are read back by the client's
\* frame reading as exactly their payloads, the payload of length 0
\* included, each frame taking 8 + length bytes so that every frame is read
\* from a frame boundary; when the last frame is cut short, the read of it
\* fails and no payload is yielded for it.
C15_FrameRoundTrip ==
  /\ ClientReads.payloads = sent
  /\ Len(ClientReads.at) = Len(sent)
  /\ \A i \in 1..Len(sent) : ClientReads.at[i] = Boundary(sent, i)
  /\ ClientReads.from = Boundary(sent, Len(sent) + 1)
  /\ ~cut => ClientReads.st = "no_prefix" /\ ClientReads.from = Len(sock) + 1
  /\ cut => ClientReads.st \in {"no_prefix", "short"}

C15_Witness ==
  /\ Len(sent) = 2
  /\ \E i, j \in 1..2 : Len(sent[i]) = 0 /\ Len(sent[j]) = 300
  /\ cut
  /\ ClientReads.st = "short"
  /\ Len(sock) > Boundary(sent, 3) + 8

\* An Error response that describes the invalid payload.
InvalidPayloadError == [tag |-> "Error", text |-> <<"Invalid Payload: ", DecodeError>>]

\* Session c has read, and what it read was no Command.
NoCommand(c) == cmd[c] = NoCmd /\ pc[c] \notin {"idle", "read"}

C16_State ==
  \A c \in Conns : NoCommand(c) =>
    /\ pc[c] \in {"respond", "done"}
    /\ \A p \in spawned : p.conn # c
    /\ child[c] = NoChild
    /\ \A r \in Relays : rpc[c][r] = "none"
    /\ Written(c) = <<>>
    /\ gq[c] = <<>>
    /\ Frames(c) \in {<<>>, <<InvalidPayloadError>>}
    /\ pc[c] = "respond" => wframe[c]["drv"] = InvalidPayloadError

C16_Step ==
  \A c \in Conns :
    /\ pc[c] = "read" /\ pc'[c] = "done" => cmd'[c] = NoCmd /\ Frames(c)' = <<>>
    /\ pc[c] = "read" /\ pc'[c] # "read" /\ cmd'[c] = NoCmd => pc'[c] \in {"respond", "done"}
    /\ pc[c] = "respond" /\ cmd[c] = NoCmd /\ pc'[c] = "done" =>
         Frames(c)' = <<InvalidPayloadError>>
    /\ pc[c] = "done" => pc'[c] = "done" /\ Frames(c)' = Frames(c)

\* C16: a session whose first read does not decode to a Command makes
\* exactly one write_response call, for Error("Invalid Payload: ..."), spawns
\* no process, writes no event record, and ends; a session whose first read
\* fails or returns zero bytes ends without a write_response call; an ended
\* session writes nothing more.
C16_InvalidOrEmptyRequest == []C16_State /\ [][C16_Step]_vars

C16_Witness ==
  \E a, b \in Conns :
    /\ a # b
    /\ NoCommand(a) /\ pc[a] = "done"
    /\ Frames(a) = <<InvalidPayloadError>>
    /\ WholeOnWire(a, InvalidPayloadError)
    /\ NoCommand(b) /\ pc[b] = "done"
    /\ Frames(b) = <<>> /\ wire[b] = <<>>

\* Records i..j of the device are of one logical update of one session: the
\* same session wrote both ends and none of its records before j is the
\* SYN_REPORT that closes an update.
SameUpdate(i, j) ==
  /\ device[i].conn = device[j].conn
  /\ \A k \in i..(j - 1) :
       device[k].conn = device[i].conn => device[k].ev.type # 0

\* C17: each logical update of a gesture (position X, position Y, touch
\* state or nothing, synchronization) is on the device as a contiguous
\* group of records, with no record of another session between them.
C17_ContiguousUpdates ==
  \A i, j \in 1..Len(device) :
    i < j /\ SameUpdate(i, j) => \A k \in i..j : device[k].conn = device[i].conn

\* Relay r of session c is in reader.lines(), and the child has written
\* nothing that r has not taken.
Silent(c, r) == rpc[c][r] = "read" /\ rnext[c][r] = child[c].produced[r]

C19_State ==
  \A c \in Conns : \A r \in Relays :
    /\ lock[c] = r =>
         /\ rpc[c][r] = "write"
         /\ wphase[c][r] \in {"len", "body"}
         /\ wframe[c][r].tag = "StreamChunk"
    /\ rpc[c][r] = "read" /\ rpc[c][Other(r)] = "lock" => ENABLED RelayLock(c, Other(r))

C19_Step ==
  \A c \in Conns : \A r \in Relays :
    /\ lock[c] # r /\ lock'[c] = r =>
         /\ rpc[c][r] = "lock"
         /\ rnext'[c][r] = rnext[c][r]
         /\ wframe[c][r] = ChunkOf(r, LineName(r, rnext[c][r]))
    /\ lock[c] = r /\ lock'[c] = r =>
         /\ rnext'[c][r] = rnext[c][r]
         /\ wframe'[c][r] = wframe[c][r]
         /\ Len(CallsBy(c, r))' <=
              Len(CallsBy(c, r)) + (IF wphase[c][r] = "len" THEN 1 ELSE 0)
         /\ wphase'[c][r] \in {wphase[c][r], "body"}
    /\ rnext'[c][r] # rnext[c][r] => lock[c] # r /\ lock'[c] # r

\* C19: a relay holds the write guard only while it writes one frame: it
\* takes the guard after it has read the line of that frame, makes one
\* write_response call under it, and has dropped it before it reads the
\* next line; a relay waiting in its reader never holds the guard, so the
\* other relay can take it.
C19_GuardOnlyWhileWriting == []C19_State /\ [][C19_Step]_vars

C19_Witness ==
  \E c \in Conns : \E r \in Relays :
    /\ Silent(c, r) /\ rnext[c][r] = 0 /\ ~child[c].closed[r]
    /\ WholeOnWire(c, ChunkOf(Other(r), LineName(Other(r), 1)))
    /\ lock[c] = Other(r)
    /\ rnext[c][Other(r)] = 2

\* C11: in a build without direct_input a DirectTap or DirectSwipe session
\* writes no event record and makes one write_response call, of the Error
\* that says the command is not supported or the feature is disabled; in a
\* build with it the request is never answered with that Error, and while
\* the gesture runs the records written and the records still to write are
\* together the records of tap(x, y), or of swipe(x1, y1, x2, y2,
\* duration_ms).
C11_FeatureGate ==
  \A c \in Conns : Direct(c) =>
    IF ~direct_input
    THEN /\ Written(c) = <<>> /\ gq[c] = <<>>
         /\ pc[c] \in {"respond", "done"}
         /\ pc[c] = "respond" => wframe[c]["drv"] = Error(<<Unsupported>>)
         /\ Len(emitted[c]) <= 1
         /\ \A i \in 1..Len(emitted[c]) : emitted[c][i].f = Error(<<Unsupported>>)
         /\ pc[c] = "done" => Len(emitted[c]) = 1
    ELSE /\ wframe[c]["drv"] # Error(<<Unsupported>>)
         /\ \A i \in 1..Len(emitted[c]) : emitted[c][i].f # Error(<<Unsupported>>)
         /\ pc[c] = "gesture" =>
              /\ gq[c] # <<>>
              /\ WrittenEvents(c) \o EventsOf(gq[c]) =
                   EventsOf(IF cmd[c].op = "DirectTap"
                            THEN tap(cmd[c].x, cmd[c].y)
                            ELSE swipe(cmd[c].x1, cmd[c].y1, cmd[c].x2, cmd[c].y2,
                                       cmd[c].duration_ms))

\* A DirectSwipe in a build without the feature was answered with the
\* Error, whole on the wire.
C11_Witness ==
  \E c \in Conns :
    /\ ~direct_input /\ cmd[c].op = "DirectSwipe" /\ pc[c] = "done"
    /\ Delivered(c) = <<Error(<<Unsupported>>)>>

\* The session's response, made or being written, is f.
Answers(c, f) ==
  \/ wframe[c]["drv"] = f
  \/ \E i \in 1..Len(emitted[c]) : emitted[c][i].f = f

\* C12: while a tap runs, the records written and the steps still to take
\* are together position-X = x, position-Y = y, touch state 1,
\* synchronization, position-X = x, position-Y = y, touch state 0,
\* synchronization and then the 50 ms wait; the tap is answered with
\* Success only when the eight records are written and the wait is over.
C12_TapRecords ==
  \A c \in Conns : (cmd[c].op = "DirectTap" /\ direct_input) =>
    LET x == cmd[c].x
        y == cmd[c].y
        eight == <<Event(3, 53, x), Event(3, 54, y), Event(1, 330, 1), Event(0, 0, 0),
                   Event(3, 53, x), Event(3, 54, y), Event(1, 330, 0), Event(0, 0, 0)>>
    IN  /\ pc[c] = "gesture" => WrittenEvents(c) \o gq[c] = eight \o <<Sleep(50)>>
        /\ Answers(c, Success(<<>>)) => WrittenEvents(c) = eight /\ gq[c] = <<>>
        /\ Len(Written(c)) <= 8

\* A tap was answered with Success, whole on the wire.
C12_Witness ==
  \E c \in Conns :
    /\ cmd[c].op = "DirectTap" /\ pc[c] = "done"
    /\ Len(Written(c)) = 8
    /\ Delivered(c) = <<Success(<<>>)>>

\* ---------------------------------------------------------- swipe scenario

\* The server with direct_input and one client that asks for a swipe: every
\* start and end on the grid 0..MaxCoord and the swipe from (0, 0) to
\* (100, 0), with durations below, at and above one step, of several steps
\* and of 100 ms; the device takes every record.
Durations == {0, 5, 9, 10, 19, 30, 100}

SwipeInputs ==
  {g \in {DirectSwipe(x1, y1, x2, y2, d) :
            x1 \in 0..MaxCoord, y1 \in 0..MaxCoord, x2 \in 0..MaxCoord,
            y2 \in 0..MaxCoord, d \in Durations}
         \cup {DirectSwipe(0, 0, 100, 0, 100)} : F32Exact(g)}

InitSwipe == InitWith(1) /\ direct_input

NextSwipe ==
  \E c \in Conns :
    \/ Accept(c)
    \/ RecvDirect(c, SwipeInputs)
    \/ GestureWrite(c)
    \/ GestureSleep(c)
    \/ WriteLenOk(c, "drv")
    \/ WriteBodyOk(c, "drv")

SpecSwipe == InitSwipe /\ [][NextSwipe]_vars

\* C13: a swipe that was answered with Success has written touch-down at
\* (x1, y1) (position-X, position-Y, touch state 1, synchronization), then
\* max(1, duration_ms div 10) groups of position-X, position-Y,
\* synchronization, then touch-up at exactly (x2, y2); one group when
\* duration_ms < 10 and ten when duration_ms = 100.
C13_SwipeShape ==
  \A c \in Conns :
    (cmd[c].op = "DirectSwipe" /\ direct_input /\ Answers(c, Success(<<>>))) =>
    LET w == WrittenEvents(c)
        d == cmd[c].duration_ms
        steps == IF d \div 10 >= 1 THEN d \div 10 ELSE 1
    IN  /\ Len(w) = 4 + 3 * steps + 4
        /\ SubSeq(w, 1, 4) = <<Event(3, 53, cmd[c].x1), Event(3, 54, cmd[c].y1),
                               Event(1, 330, 1), Event(0, 0, 0)>>
        /\ \A k \in 1..steps :
             /\ w[3 * k + 2].type = 3 /\ w[3 * k + 2].code = 53
             /\ w[3 * k + 3].type = 3 /\ w[3 * k + 3].code = 54
             /\ w[3 * k + 4] = Event(0, 0, 0)
        /\ SubSeq(w, Len(w) - 3, Len(w)) =
             <<Event(3, 53, cmd[c].x2), Event(3, 54, cmd[c].y2),
               Event(1, 330, 0), Event(0, 0, 0)>>
        /\ d < 10 => Len(w) = 11
        /\ d = 100 => Len(w) = 38

\* The swipe from (0, 0) to (100, 0) in 100 ms was answered with Success.
C13_Witness ==
  \E c \in Conns :
    /\ cmd[c] = DirectSwipe(0, 0, 100, 0, 100)
    /\ pc[c] = "done"
    /\ Delivered(c) = <<Success(<<>>)>>
    /\ Len(Written(c)) = 38

\* The integer nearest to num / den, den > 0, halves away from zero.
Nearest(num, den) == Sign(num) * ((2 * Abs(num) + den) \div (2 * den))

\* The coordinate values of the k-th move of the swipe of session c, and
\* steps times the exact position x1 + k * (x2 - x1) / steps.
MoveX(c, k) == WrittenEvents(c)[3 * k + 2].value

MoveY(c, k) == WrittenEvents(c)[3 * k + 3].value

ExactX(c, k) ==
  cmd[c].x1 * SwipeSteps(cmd[c].duration_ms) + k * (cmd[c].x2 - cmd[c].x1)

ExactY(c, k) ==
  cmd[c].y1 * SwipeSteps(cmd[c].duration_ms) + k * (cmd[c].y2 - cmd[c].y1)

SwipeDone(c) ==
  cmd[c].op = "DirectSwipe" /\ direct_input /\ Answers(c, Success(<<>>))

\* C14: the k-th move of a swipe is at x1 + k * (x2 - x1) / steps and
\* y1 + k * (y2 - y1) / steps, each rounded to the nearest integer.
C14_NearestPosition ==
  \A c \in Conns : SwipeDone(c) =>
    \A k \in 1..SwipeSteps(cmd[c].duration_ms) :
      /\ MoveX(c, k) = Nearest(ExactX(c, k), SwipeSteps(cmd[c].duration_ms))
      /\ MoveY(c, k) = Nearest(ExactY(c, k), SwipeSteps(cmd[c].duration_ms))

\* v is the exact position num / den >= 0 with its fraction dropped, or one
\* less than an exact position that is whole.
Truncated(v, num, den) ==
  \/ v = num \div den
  \/ num % den = 0 /\ v = num \div den - 1

\* What swipe writes instead, for coordinates that are not negative: the
\* exact position with its fraction dropped; where the exact position is a
\* whole number the error of the running f32 sum can leave the move one
\* below it.
TruncatedPosition ==
  \A c \in Conns : SwipeDone(c) =>
    \A k \in 1..SwipeSteps(cmd[c].duration_ms) :
      /\ Truncated(MoveX(c, k), ExactX(c, k), SwipeSteps(cmd[c].duration_ms))
      /\ Truncated(MoveY(c, k), ExactY(c, k), SwipeSteps(cmd[c].duration_ms))

\* The swipe from (0, 0) to (2, 1) in three steps: the first move, exactly
\* at (2/3, 1/3), was written at (0, 0).
TruncatedWitness ==
  \E c \in Conns :
    /\ SwipeDone(c) /\ cmd[c] = DirectSwipe(0, 0, 2, 1, 30)
    /\ MoveX(c, 1) = 0 /\ MoveY(c, 1) = 0
    /\ MoveX(c, 2) = 1 /\ MoveX(c, 3) = 2

\* The Error that carries the system message of a failed gesture.
FailedWith(k) ==
  [tag |-> "Error",
   text |-> <<IF k.op = "DirectTap" THEN "Tap Failed: " ELSE "Swipe Failed: ", DeviceError>>]

\* Session c has left its gesture, or never began it, with records unwritten.
Stopped(c) ==
  /\ Direct(c) /\ direct_input
  /\ pc[c] \in {"respond", "done"}
  /\ Len(Written(c)) < Len(Records(cmd[c]))

C20_State ==
  \A c \in Conns : (Direct(c) /\ direct_input) =>
    /\ LET all == Records(cmd[c])
       IN  /\ Len(Written(c)) <= Len(all)
           /\ WrittenEvents(c) = SubSeq(all, 1, Len(Written(c)))
    /\ Stopped(c) =>
         /\ gq[c] = <<>>
         /\ Len(emitted[c]) <= 1
         /\ \A i \in 1..Len(emitted[c]) : emitted[c][i].f = FailedWith(cmd[c])
         /\ pc[c] = "respond" => wframe[c]["drv"] = FailedWith(cmd[c])
         /\ pc[c] = "done" => Len(emitted[c]) = 1
    /\ Answers(c, FailedWith(cmd[c])) => Stopped(c)

C20_Step ==
  \A c \in Conns :
    /\ ( /\ Direct(c) /\ pc[c] = "gesture" /\ gq[c] # <<>> /\ gq'[c] # gq[c]
         /\ Head(gq[c]).k = "event"
         /\ Written(c)' = Written(c) ) =>
           pc'[c] = "respond" /\ gq'[c] = <<>> /\ wframe'[c]["drv"] = FailedWith(cmd[c])
    /\ pc[c] \in {"respond", "done"} =>
         /\ pc'[c] \in {"respond", "done"}
         /\ Written(c)' = Written(c)

\* C20: when the device cannot be opened, or the write of a record fails,
\* the gesture stops there: the records on the device are those before the
\* failed one, none is written afterwards (the touch-up of a swipe that
\* failed after its touch-down included), and the session makes exactly one
\* response, Error("Tap Failed: ..") or Error("Swipe Failed: ..") with the
\* system message.
C20_FailureStopsGesture == []C20_State /\ [][C20_Step]_vars

\* A swipe failed after its touch-down and a move, and was answered.
C20_Witness ==
  \E c \in Conns :
    /\ cmd[c].op = "DirectSwipe" /\ direct_input
    /\ pc[c] = "done"
    /\ Len(Written(c)) > 4 /\ Len(Written(c)) < Len(Records(cmd[c]))
    /\ WrittenEvents(c)[3] = Event(1, 330, 1)
    /\ \A i \in 1..Len(Written(c)) : WrittenEvents(c)[i] # Event(1, 330, 0)
    /\ Frames(c) = <<FailedWith(cmd[c])>>
    /\ WholeOnWire(c, FailedWith(cmd[c]))

\* C18: under the fairness of SpecLive a streaming session reaches its end:
\* it leaves the relaying, makes its StreamEnd call as the last one and
\* returns, which closes the connection, whether the client is still there
\* or not; no thread stays waiting for the write guard.
C18_StreamTerminates ==
  \A c \in Conns :
    /\ (cmd[c].op = "Stream") ~>
         (/\ pc[c] = "done"
          /\ \A r \in Relays : rpc[c][r] \in {"none", "done"}
          /\ lock[c] = "free"
          /\ Len(emitted[c]) > 0
          /\ emitted[c][Len(emitted[c])] = [f |-> StreamEnd, by |-> "drv"])
    /\ \A r \in Relays : (rpc[c][r] = "lock") ~> (rpc[c][r] = "write")
    /\ (pc[c] = "end_lock") ~> (pc[c] = "stream_end")

\* The client went away in the middle of the stream: a chunk was delivered,
\* lines are still to be relayed, the child runs, and a relay waits for the
\* guard that the other holds.
C18_Witness ==
  \E c \in Conns : \E r \in Relays :
    /\ cmd[c].op = "Stream" /\ pc[c] = "join_out"
    /\ ~connected[c]
    /\ Len(Delivered(c)) = 1
    /\ child[c].st = "running"
    /\ lock[c] = r /\ rpc[c][Other(r)] = "lock"
    /\ rnext[c][r] < child[c].produced[r]

====
